---- MODULE Spec2Model ----
(***************************************************************************)
(* Devwatsee: the user service (src/app.py) and the admin service          *)
(* (src/admintest.py) of a video application, both over one database.      *)
(* Every HTTP handler is one action; a handler's response is recorded in   *)
(* the history variable last.                                              *)
(***************************************************************************)
EXTENDS Integers, Sequences, FiniteSets, Bags, TLC

\* ------------------------------------------------------------------ bounds
MaxNow == 3        \* the clock stops after this many hours
MaxHeld == 1       \* tokens the clients keep at a time
MaxVideos == 2     \* video rows the catalog may grow to
MaxInflight == 2   \* /save requests in flight at a time (concurrent server)

\* ------------------------------------------------------------ data domains
None == "None"                       \* Python None, JSON null, SQL NULL
Usernames == {"alice", "bob"}
Names == {"Al"}
Emails == {"a@x.io", "b@x.io"}
Passwords == {"p1", "aB3dE6gH"}      \* passwords a client chooses
Generated == {"aB3dE6gH", "Zz9yY8xX"} \* outcomes of random.choices(alnum, k=8)
Salts == {"s1"}                      \* outcomes of the hash's random salt
VideoIds == 1..(MaxVideos + 1)       \* ids a client may name; the last matches no row

VARIABLES
    env,      \* the process environment both services read at start-up
    users,    \* table user: sequence of rows, id = position
    videos,   \* table video: sequence of rows, id = position
    saved,    \* table saved_video: bag of [user_id, video_id] rows
    now,      \* wall clock, in hours
    held,     \* tokens the clients hold (returned by login or admin_login)
    inflight, \* /save requests between their existence check and their insert
    last      \* the last request handled and its response

vars == <<env, users, videos, saved, now, held, inflight, last>>

\* ------------------------------------------------------------ configuration
JWT_ACCESS_TOKEN_EXPIRES == 2   \* hours, src/app.py:27
\* admintest.py sets no JWT_ACCESS_TOKEN_EXPIRES: flask_jwt_extended's default of
\* 15 minutes applies, which on a clock of whole hours ends before the next hour.
ADMIN_TOKEN_EXPIRES == 1
ADMIN_USERNAME == "root"
ADMIN_PASSWORD == "s3cret"
Keys == {"k1", "k2"}

\* ------------------------------------------------------------------ tokens
IntId(i) == <<"int", i>>
AdminId == <<"str", "admin">>

\* HMAC over the claims with the service's secret
Sign(key, sub, exp) == <<key, sub, exp>>

create_access_token(key, identity, ttl) ==
    [sub |-> identity, exp |-> now + ttl, sig |-> Sign(key, identity, now + ttl)]

\* no Authorization header
NoToken == [sub |-> <<"none", 0>>, exp |-> 0, sig |-> <<>>]

\* A held token whose subject the client rewrote without the secret.
Tamper(t, sub) == [t EXCEPT !.sub = sub]

\* jwt_required(): "missing" | "invalid" | "expired" | "ok"
verify_jwt(token, key) ==
    IF token = NoToken THEN "missing"
    ELSE IF token.sig # Sign(key, token.sub, token.exp) THEN "invalid"
    ELSE IF token.exp <= now THEN "expired"
    ELSE "ok"

\* The response to a request jwt_required() rejects.  app.py registers only
\* unauthorized_loader (no token: 401); an expired token gets the extension's
\* default 401 and a token that does not decode or verify its default 422.
RejectStatus(auth) ==
    CASE auth = "missing" -> 401
      [] auth = "expired" -> 401
      [] auth = "invalid" -> 422

\* what a client can put in the Authorization header
Presentable ==
    {NoToken} \cup held
      \cup {Tamper(t, IntId(i)) : t \in held, i \in 1..Len(users)}
      \cup {Tamper(t, AdminId) : t \in held}

\* the client keeps a token it was issued, dropping an old one when it holds MaxHeld
Keep(tok) ==
    IF Cardinality(held) < MaxHeld THEN {held \cup {tok}}
    ELSE {(held \ {d}) \cup {tok} : d \in held}

\* -------------------------------------------------------- password hashing
\* werkzeug generate_password_hash: method$salt$digest with a random salt
generate_password_hash(password, salt) ==
    [salt |-> salt, digest |-> <<salt, password>>]

check_password_hash(pwhash, password) ==
    pwhash.digest = <<pwhash.salt, password>>

\* ------------------------------------------------------------------ tables
UserIds == 1..Len(users)

\* the lowest id in a set of row ids, 0 for the empty set: query.first()
First(ids) == IF ids = {} THEN 0 ELSE CHOOSE i \in ids : \A j \in ids : i <= j

\* User.query.filter_by(email=email).first(); filter_by(email=None) is IS NULL
FirstByEmail(tbl, email) == First({i \in 1..Len(tbl) : tbl[i].email = email})

\* User.query.filter_by(username=username).first()
FirstByUsername(tbl, username) ==
    First({i \in 1..Len(tbl) : tbl[i].username = username})

\* (mutant) user.email carries no unique constraint
UniqueViolation_username_only(tbl) ==
    \E i, j \in 1..Len(tbl) :
        i # j /\ tbl[i].username # None /\ tbl[i].username = tbl[j].username

\* unique=True on user.username and user.email: what the database refuses at
\* commit.  NULLs are distinct from each other under a unique constraint.
UniqueViolation(tbl) ==
    \E i, j \in 1..Len(tbl) :
        /\ i # j
        /\ \/ tbl[i].username # None /\ tbl[i].username = tbl[j].username
           \/ tbl[i].email # None /\ tbl[i].email = tbl[j].email

\* -------------------------------------------------------------------- init
Init ==
    /\ env \in [JWT_SECRET_KEY : {"k1"}, ADMIN_JWT_SECRET : Keys]
    /\ users = <<>>
    /\ videos = <<>>
    /\ saved = EmptyBag
    /\ now = 0
    /\ held = {}
    /\ inflight = EmptyBag
    /\ last = [op |-> "start", req |-> <<>>, status |-> 0, out |-> <<>>]

\* a deployment seen from the user service, which never reads ADMIN_JWT_SECRET
InitUserService == Init /\ env.ADMIN_JWT_SECRET = "k2"

\* ============================================================ user service
\* (mutant) the duplicate check looks at the username alone
UserExists_username_only(username, email) ==
    \E i \in UserIds : users[i].username = username

\* User.query.filter((User.username == ...) | (User.email == ...)).first()
UserExists(username, email) ==
    \E i \in UserIds : users[i].username = username \/ users[i].email = email

\* POST /signup
signup(username, name, email, password, salt) ==
    LET exists == UserExists(username, email)
        user == [username |-> username, name |-> name, email |-> email,
                 password |-> generate_password_hash(password, salt)]
        req == [username |-> username, name |-> name, email |-> email,
                password |-> password]
    IN  /\ IF exists
           THEN /\ users' = users
                /\ last' = [op |-> "signup", req |-> req, status |-> 409,
                            out |-> [success |-> FALSE]]
           ELSE /\ users' = Append(users, user)
                /\ last' = [op |-> "signup", req |-> req, status |-> 200,
                            out |-> [success |-> TRUE]]
        /\ UNCHANGED <<env, videos, saved, now, held, inflight>>

\* (mutant) login never compares the password with the stored hash
LoginResponse_no_password_check(tbl, username, password) ==
    LET uid == FirstByUsername(tbl, username)
    IN  IF uid = 0
        THEN [status |-> 401, token |-> NoToken]
        ELSE [status |-> 200,
              token |-> create_access_token(env.JWT_SECRET_KEY, IntId(uid),
                                            JWT_ACCESS_TOKEN_EXPIRES)]

\* the response login computes against the user table tbl
LoginResponse(tbl, username, password) ==
    LET uid == FirstByUsername(tbl, username)
    IN  IF uid = 0 \/ ~check_password_hash(tbl[uid].password, password)
        THEN [status |-> 401, token |-> NoToken]
        ELSE [status |-> 200,
              token |-> create_access_token(env.JWT_SECRET_KEY, IntId(uid),
                                            JWT_ACCESS_TOKEN_EXPIRES)]

\* POST /login
login(username, password) ==
    LET r == LoginResponse(users, username, password)
    IN  /\ last' = [op |-> "login",
                    req |-> [username |-> username, password |-> password],
                    status |-> r.status,
                    out |-> [success |-> r.status = 200, access_token |-> r.token]]
        /\ held' \in (IF r.status = 200 THEN Keep(r.token) ELSE {held})
        /\ UNCHANGED <<env, users, videos, saved, now, inflight>>

\* no email left the process
NoMail == [to |-> None, password |-> None]

\* the email send_email hands to the SMTP server
send_email(to, new_password) == [to |-> to, password |-> new_password]

\* (mutant) the new hash is committed only after the email went out
forgot_password_commit_after_send(email, new_pass, salt, delivered) ==
    LET uid == FirstByEmail(users, email)
        req == [email |-> email]
    IN  /\ IF uid = 0
           THEN /\ users' = users
                /\ last' = [op |-> "forgot_password", req |-> req, status |-> 404,
                            out |-> [success |-> FALSE, mail |-> NoMail]]
           ELSE IF delivered /\ email # None
           THEN /\ users' = [users EXCEPT
                               ![uid].password = generate_password_hash(new_pass, salt)]
                /\ last' = [op |-> "forgot_password", req |-> req, status |-> 200,
                            out |-> [success |-> TRUE,
                                     mail |-> send_email(email, new_pass)]]
           ELSE /\ users' = users
                /\ last' = [op |-> "forgot_password", req |-> req, status |-> 500,
                            out |-> [success |-> FALSE, mail |-> NoMail]]
        /\ UNCHANGED <<env, videos, saved, now, held, inflight>>

\* POST /forgot-password.  delivered: whether the SMTP exchange went through.
forgot_password(email, new_pass, salt, delivered) ==
    LET uid == FirstByEmail(users, email)
        req == [email |-> email]
    IN  /\ IF uid = 0
           THEN /\ users' = users
                /\ last' = [op |-> "forgot_password", req |-> req, status |-> 404,
                            out |-> [success |-> FALSE, mail |-> NoMail]]
           ELSE /\ users' = [users EXCEPT
                               ![uid].password = generate_password_hash(new_pass, salt)]
                \* the commit precedes the send; an exception in send_email leaves it
                /\ IF delivered /\ email # None
                   THEN last' = [op |-> "forgot_password", req |-> req, status |-> 200,
                                 out |-> [success |-> TRUE,
                                          mail |-> send_email(email, new_pass)]]
                   ELSE last' = [op |-> "forgot_password", req |-> req, status |-> 500,
                                 out |-> [success |-> FALSE, mail |-> NoMail]]
        /\ UNCHANGED <<env, videos, saved, now, held, inflight>>

\* a request that jwt_required() turns away before the handler runs
Rejected(op, req, auth) ==
    /\ last' = [op |-> op, req |-> req, status |-> RejectStatus(auth),
                out |-> [auth |-> auth]]
    /\ UNCHANGED <<env, users, videos, saved, now, held, inflight>>

\* User.query.get(get_jwt_identity()); 0 for None
GetUser(sub) == IF sub[1] = "int" /\ sub[2] \in UserIds THEN sub[2] ELSE 0

\* GET /profile
profile(token) ==
    LET auth == verify_jwt(token, env.JWT_SECRET_KEY)
        req == [token |-> token]
        uid == GetUser(token.sub)
    IN  IF auth # "ok" THEN Rejected("profile", req, auth)
        ELSE /\ last' = IF uid = 0
                        THEN [op |-> "profile", req |-> req, status |-> 500,
                              out |-> <<>>]
                        ELSE [op |-> "profile", req |-> req, status |-> 200,
                              out |-> [username |-> users[uid].username,
                                       name |-> users[uid].name,
                                       email |-> users[uid].email]]
             /\ UNCHANGED <<env, users, videos, saved, now, held, inflight>>

\* POST /profile/update
update_profile(token, name, email) ==
    LET auth == verify_jwt(token, env.JWT_SECRET_KEY)
        req == [token |-> token, name |-> name, email |-> email]
        uid == GetUser(token.sub)
        new == [users EXCEPT ![uid].name = name, ![uid].email = email]
    IN  IF auth # "ok" THEN Rejected("update_profile", req, auth)
        ELSE /\ IF uid = 0 \/ UniqueViolation(new)
                \* AttributeError on None, or IntegrityError at commit: nothing stored
                THEN /\ users' = users
                     /\ last' = [op |-> "update_profile", req |-> req, status |-> 500,
                                 out |-> <<>>]
                ELSE /\ users' = new
                     /\ last' = [op |-> "update_profile", req |-> req, status |-> 200,
                                 out |-> [success |-> TRUE]]
             /\ UNCHANGED <<env, videos, saved, now, held, inflight>>

\* POST /change-password
change_password(token, oldPassword, newPassword, salt) ==
    LET auth == verify_jwt(token, env.JWT_SECRET_KEY)
        req == [token |-> token, oldPassword |-> oldPassword,
                newPassword |-> newPassword]
        uid == GetUser(token.sub)
    IN  IF auth # "ok" THEN Rejected("change_password", req, auth)
        ELSE /\ IF uid = 0
                THEN /\ users' = users
                     /\ last' = [op |-> "change_password", req |-> req,
                                 status |-> 500, out |-> <<>>]
                ELSE IF ~check_password_hash(users[uid].password, oldPassword)
                THEN /\ users' = users
                     /\ last' = [op |-> "change_password", req |-> req,
                                 status |-> 401, out |-> [success |-> FALSE]]
                ELSE /\ users' = [users EXCEPT ![uid].password =
                                     generate_password_hash(newPassword, salt)]
                     /\ last' = [op |-> "change_password", req |-> req,
                                 status |-> 200, out |-> [success |-> TRUE]]
             /\ UNCHANGED <<env, videos, saved, now, held, inflight>>

\* the JSON the video lists return for row i
VideoJson(i) ==
    [id |-> i, title |-> videos[i].title, category |-> videos[i].category,
     section |-> videos[i].section, video_url |-> videos[i].video_url,
     thumbnail |-> videos[i].thumbnail_url]

\* GET /videos
list_videos(token) ==
    LET auth == verify_jwt(token, env.JWT_SECRET_KEY)
        req == [token |-> token]
    IN  IF auth # "ok" THEN Rejected("videos", req, auth)
        ELSE /\ last' = [op |-> "videos", req |-> req, status |-> 200,
                         out |-> [i \in 1..Len(videos) |-> VideoJson(i)]]
             /\ UNCHANGED <<env, users, videos, saved, now, held, inflight>>

\* saved_video rows are [user_id, video_id]; the autoincrement id is not read anywhere
SavedRow(sub, video_id) == [user_id |-> sub, video_id |-> video_id]

\* SavedVideo.query.filter_by(user_id=, video_id=).first() is not None
SavedExists(sub, video_id) == BagIn(SavedRow(sub, video_id), saved)

\* rows of saved_video for one pair
SavedCount(tbl, sub, video_id) == CopiesIn(SavedRow(sub, video_id), tbl)

\* db.session.add(SavedVideo(...)); db.session.commit()
InsertSaved(sub, video_id) == saved (+) SetToBag({SavedRow(sub, video_id)})

\* SavedVideo.query.filter_by(user_id=, video_id=).delete()
DeleteSaved(sub, video_id) ==
    LET keep == {r \in BagToSet(saved) : r # SavedRow(sub, video_id)}
    IN  [r \in keep |-> saved[r]]

\* (mutant) save_video inserts without looking for the pair first
SaveRows_always_insert(user_id, video_id) == InsertSaved(user_id, video_id)

\* save_video's write: an insert unless the pair is already there
SaveRows(user_id, video_id) ==
    IF SavedExists(user_id, video_id) THEN saved
    ELSE InsertSaved(user_id, video_id)

\* POST /save
save_video(token, video_id) ==
    LET auth == verify_jwt(token, env.JWT_SECRET_KEY)
        req == [token |-> token, video_id |-> video_id]
        user_id == token.sub
    IN  IF auth # "ok" THEN Rejected("save", req, auth)
        ELSE /\ saved' = SaveRows(user_id, video_id)
             /\ last' = [op |-> "save", req |-> req, status |-> 200,
                         out |-> [saved |-> TRUE]]
             /\ UNCHANGED <<env, users, videos, now, held, inflight>>

\* POST /unsave
unsave_video(token, video_id) ==
    LET auth == verify_jwt(token, env.JWT_SECRET_KEY)
        req == [token |-> token, video_id |-> video_id]
        user_id == token.sub
    IN  IF auth # "ok" THEN Rejected("unsave", req, auth)
        ELSE /\ saved' = DeleteSaved(user_id, video_id)
             /\ last' = [op |-> "unsave", req |-> req, status |-> 200,
                         out |-> [saved |-> FALSE]]
             /\ UNCHANGED <<env, users, videos, now, held, inflight>>

\* GET /saved: Video joined to saved_video on video_id, one result per ledger row
list_saved(token) ==
    LET auth == verify_jwt(token, env.JWT_SECRET_KEY)
        req == [token |-> token]
        user_id == token.sub
        rows == {i \in 1..Len(videos) : SavedExists(user_id, i)}
    IN  IF auth # "ok" THEN Rejected("saved", req, auth)
        ELSE /\ last' = [op |-> "saved", req |-> req, status |-> 200,
                         out |-> [i \in rows |->
                                     [id |-> i, title |-> videos[i].title,
                                      thumbnail |-> videos[i].thumbnail_url,
                                      times |-> SavedCount(saved, user_id, i)]]]
             /\ UNCHANGED <<env, users, videos, saved, now, held, inflight>>

\* =========================================================== admin service
\* POST /admin/login
admin_login(username, password) ==
    LET ok == username = ADMIN_USERNAME /\ password = ADMIN_PASSWORD
        token == create_access_token(env.ADMIN_JWT_SECRET, AdminId,
                                     ADMIN_TOKEN_EXPIRES)
        req == [username |-> username, password |-> password]
    IN  /\ last' = IF ok
                   THEN [op |-> "admin_login", req |-> req, status |-> 200,
                         out |-> [success |-> TRUE, token |-> token]]
                   ELSE [op |-> "admin_login", req |-> req, status |-> 401,
                         out |-> [success |-> FALSE, token |-> NoToken]]
        /\ held' \in (IF ok THEN Keep(token) ELSE {held})
        /\ UNCHANGED <<env, users, videos, saved, now, inflight>>

\* if get_jwt_identity() != "admin": return 403
Forbidden(op, req) ==
    /\ last' = [op |-> op, req |-> req, status |-> 403,
                out |-> [error |-> "Forbidden"]]
    /\ UNCHANGED <<env, users, videos, saved, now, held, inflight>>

\* (mutant) the subject check is dropped: any valid token passes
IsAdmin_any_token(sub) == TRUE

IsAdmin(sub) == sub = AdminId

\* GET /admin/users
admin_users(token) ==
    LET auth == verify_jwt(token, env.ADMIN_JWT_SECRET)
        req == [token |-> token]
    IN  IF auth # "ok" THEN Rejected("admin_users", req, auth)
        ELSE IF ~IsAdmin(token.sub) THEN Forbidden("admin_users", req)
        ELSE /\ last' = [op |-> "admin_users", req |-> req, status |-> 200,
                         out |-> [i \in UserIds |->
                                     [id |-> i, username |-> users[i].username,
                                      email |-> users[i].email]]]
             /\ UNCHANGED <<env, users, videos, saved, now, held, inflight>>

\* GET /admin/videos
admin_videos(token) ==
    LET auth == verify_jwt(token, env.ADMIN_JWT_SECRET)
        req == [token |-> token]
    IN  IF auth # "ok" THEN Rejected("admin_videos", req, auth)
        ELSE IF ~IsAdmin(token.sub) THEN Forbidden("admin_videos", req)
        ELSE /\ last' = [op |-> "admin_videos", req |-> req, status |-> 200,
                         out |-> [i \in 1..Len(videos) |-> VideoJson(i)]]
             /\ UNCHANGED <<env, users, videos, saved, now, held, inflight>>

\* a form field or file part that Python's all() takes as missing
Falsy(x) == x = None \/ x = ""

\* the secure_url cloudinary.uploader.upload returns for a blob put in a folder
secure_url(blob, folder) == <<"https://res.cloudinary.com", folder, blob>>

\* the row add_video builds
NewVideo(title, category, section, video, thumbnail) ==
    [title |-> title, category |-> category, section |-> section,
     video_url |-> secure_url(video, "watsee/videos"),
     thumbnail_url |-> secure_url(thumbnail, "watsee/thumbnails")]

\* POST /admin/videos.  uploads: how many of the two uploads the media host accepts
\* before one raises (2: both succeed).
add_video(token, title, category, section, video, thumbnail, uploads) ==
    LET auth == verify_jwt(token, env.ADMIN_JWT_SECRET)
        req == [token |-> token, title |-> title, category |-> category,
                section |-> section, video |-> video, thumbnail |-> thumbnail]
    IN  IF auth # "ok" THEN Rejected("add_video", req, auth)
        ELSE IF ~IsAdmin(token.sub) THEN Forbidden("add_video", req)
        ELSE IF Falsy(title) \/ Falsy(category) \/ Falsy(video) \/ Falsy(thumbnail)
        THEN /\ last' = [op |-> "add_video", req |-> req, status |-> 400,
                         out |-> [success |-> FALSE, uploaded |-> 0]]
             /\ UNCHANGED <<env, users, videos, saved, now, held, inflight>>
        ELSE IF uploads < 2
        THEN /\ last' = [op |-> "add_video", req |-> req, status |-> 500,
                         out |-> [success |-> FALSE, uploaded |-> uploads]]
             /\ UNCHANGED <<env, users, videos, saved, now, held, inflight>>
        ELSE /\ Len(videos) < MaxVideos
             /\ videos' = Append(videos,
                                 NewVideo(title, category, section, video, thumbnail))
             /\ last' = [op |-> "add_video", req |-> req, status |-> 200,
                         out |-> [success |-> TRUE, uploaded |-> 2]]
             /\ UNCHANGED <<env, users, saved, now, held, inflight>>

\* (mutant) data.get(key): a key the request leaves out reads as None
Get_no_default(data, key, default) ==
    IF key \in DOMAIN data THEN data[key] ELSE None

\* data.get(key, default): data is the request's JSON object
Get(data, key, default) == IF key \in DOMAIN data THEN data[key] ELSE default

\* the row update_video leaves for video
UpdatedVideo(video, data) ==
    [video EXCEPT !.title = Get(data, "title", video.title),
                  !.category = Get(data, "category", video.category),
                  !.section = Get(data, "section", video.section)]

\* PUT /admin/videos/<video_id>
update_video(token, video_id, data) ==
    LET auth == verify_jwt(token, env.ADMIN_JWT_SECRET)
        req == [token |-> token, video_id |-> video_id, data |-> data]
    IN  IF auth # "ok" THEN Rejected("update_video", req, auth)
        ELSE IF ~IsAdmin(token.sub) THEN Forbidden("update_video", req)
        ELSE IF video_id \notin 1..Len(videos)
        THEN /\ last' = [op |-> "update_video", req |-> req, status |-> 404,
                         out |-> [error |-> "Not found"]]
             /\ UNCHANGED <<env, users, videos, saved, now, held, inflight>>
        ELSE /\ videos' = [videos EXCEPT
                              ![video_id] = UpdatedVideo(videos[video_id], data)]
             /\ last' = [op |-> "update_video", req |-> req, status |-> 200,
                         out |-> [success |-> TRUE]]
             /\ UNCHANGED <<env, users, saved, now, held, inflight>>

\* ================================================== concurrent /save requests
\* save_video up to its existence check: a request that finds no row goes on to
\* insert one, and other requests run in between.
save_check(token, video_id) ==
    LET auth == verify_jwt(token, env.JWT_SECRET_KEY)
        req == [token |-> token, video_id |-> video_id]
        user_id == token.sub
    IN  IF auth # "ok" THEN Rejected("save", req, auth)
        ELSE IF SavedExists(user_id, video_id)
        THEN /\ last' = [op |-> "save", req |-> req, status |-> 200,
                         out |-> [saved |-> TRUE]]
             /\ UNCHANGED <<env, users, videos, saved, now, held, inflight>>
        ELSE /\ BagCardinality(inflight) < MaxInflight
             /\ inflight' = inflight (+) SetToBag({SavedRow(user_id, video_id)})
             /\ last' = [op |-> "save_check", req |-> req, status |-> 0,
                         out |-> <<>>]
             /\ UNCHANGED <<env, users, videos, saved, now, held>>

\* save_video from db.session.add to its response
save_insert(row) ==
    /\ BagIn(row, inflight)
    /\ inflight' = inflight (-) SetToBag({row})
    /\ saved' = InsertSaved(row.user_id, row.video_id)
    /\ last' = [op |-> "save", req |-> [row |-> row], status |-> 200,
                out |-> [saved |-> TRUE]]
    /\ UNCHANGED <<env, users, videos, now, held>>

\* ============================================================= environment
\* time passes
Tick ==
    /\ now < MaxNow
    /\ now' = now + 1
    /\ last' = [op |-> "tick", req |-> <<>>, status |-> 0, out |-> <<>>]
    /\ UNCHANGED <<env, users, videos, saved, held, inflight>>

\* the accounts the clients of the token, ledger and admin runs sign up with
Accounts == {<<"alice", "a@x.io">>, <<"bob", "b@x.io">>}

\* the JSON bodies sent to PUT /admin/videos/<id>
Updates ==
    { <<>>,
      [k \in {"title"} |-> "t2"],
      [k \in {"category", "section"} |-> None] }

\* the multipart forms sent to POST /admin/videos: complete with and without a
\* section, and with each required part left out in turn
AddForms ==
    LET full == [title |-> "t1", category |-> "c1", section |-> "s1",
                 video |-> "blob", thumbnail |-> "blob"]
    IN  {full, [full EXCEPT !.section = None], [full EXCEPT !.title = None],
         [full EXCEPT !.category = None], [full EXCEPT !.video = None],
         [full EXCEPT !.thumbnail = None]}

\* an admin who logs in and uploads complete videos: what stocks the catalog in
\* the runs of the user service
StockCatalog ==
    \/ admin_login(ADMIN_USERNAME, ADMIN_PASSWORD)
    \/ \E t \in held : add_video(t, "t1", "c1", "s1", "blob", "blob", 2)

\* ========================================================= specifications
\* The credential store: the handlers that read or write table user.
Next ==
    \/ \E u \in Usernames, n \in Names, e \in Emails \cup {None},
          p \in Passwords, s \in Salts : signup(u, n, e, p, s)
    \/ \E u \in Usernames, p \in Passwords \cup Generated : login(u, p)
    \/ \E e \in Emails \cup {None}, g \in Generated, s \in Salts,
          d \in BOOLEAN : forgot_password(e, g, s, d)
    \/ \E t \in held \cup {NoToken}, n \in Names \cup {None},
          e \in Emails \cup {None} : update_profile(t, n, e)
    \/ \E t \in held \cup {NoToken}, o \in Passwords, p \in Passwords,
          s \in Salts : change_password(t, o, p, s)

Spec == InitUserService /\ [][Next]_vars

\* Bearer tokens over time: every bearer-protected handler of the user service.
NextToken ==
    \/ \E a \in Accounts, s \in Salts : signup(a[1], "Al", a[2], "p1", s)
    \/ \E a \in Accounts : login(a[1], "p1")
    \/ Tick
    \/ \E t \in Presentable : profile(t)
    \/ \E t \in Presentable : update_profile(t, None, None)
    \/ \E t \in Presentable, s \in Salts : change_password(t, "p1", "p1", s)
    \/ \E t \in Presentable : list_videos(t)
    \/ \E t \in Presentable : save_video(t, 1)
    \/ \E t \in Presentable : unsave_video(t, 1)
    \/ \E t \in Presentable : list_saved(t)
    \/ StockCatalog

SpecToken == InitUserService /\ [][NextToken]_vars

\* The bookmark ledger, one request at a time.
NextLedger ==
    \/ \E a \in Accounts, s \in Salts : signup(a[1], "Al", a[2], "p1", s)
    \/ \E a \in Accounts : login(a[1], "p1")
    \/ \E t \in held \cup {NoToken}, v \in VideoIds : save_video(t, v)
    \/ \E t \in held \cup {NoToken}, v \in VideoIds : unsave_video(t, v)
    \/ \E t \in held \cup {NoToken} : list_saved(t)
    \/ StockCatalog

SpecLedger == InitUserService /\ [][NextLedger]_vars

\* The bookmark ledger under a server that handles requests concurrently.
NextConc ==
    \/ \E a \in Accounts, s \in Salts : signup(a[1], "Al", a[2], "p1", s)
    \/ \E a \in Accounts : login(a[1], "p1")
    \/ \E t \in held \cup {NoToken}, v \in 1..MaxVideos : save_check(t, v)
    \/ \E row \in BagToSet(inflight) : save_insert(row)
    \/ \E t \in held \cup {NoToken}, v \in VideoIds : unsave_video(t, v)

SpecConc == InitUserService /\ [][NextConc]_vars

\* The admin service and the catalog it writes.
NextAdmin ==
    \/ \E s \in Salts : signup("alice", "Al", "a@x.io", "p1", s)
    \/ login("alice", "p1")
    \/ \E u \in {ADMIN_USERNAME, "alice"}, p \in {ADMIN_PASSWORD, "p1"} :
          admin_login(u, p)
    \/ \E t \in held \cup {NoToken} : admin_users(t)
    \/ \E t \in held \cup {NoToken} : admin_videos(t)
    \/ \E t \in held \cup {NoToken}, f \in AddForms, uploads \in 0..2 :
          add_video(t, f.title, f.category, f.section, f.video, f.thumbnail, uploads)
    \/ \E t \in held \cup {NoToken}, v \in VideoIds, data \in Updates :
          update_video(t, v, data)
    \/ \E t \in held : list_videos(t)

SpecAdmin == Init /\ [][NextAdmin]_vars

\* ==================================================================== claims
AllPasswords == Passwords \cup Generated

\* C1: a signup whose username or email some stored user already has answers
\* 409 Conflict and leaves table user as it was, whatever the other fields are.
C1_SignupConflict ==
    [][ (/\ last'.op = "signup"
         /\ \E i \in UserIds : \/ users[i].username = last'.req.username
                               \/ users[i].email = last'.req.email)
        => (last'.status = 409 /\ users' = users) ]_vars

\* C1 witness: a signup refused for its email alone (the username was free).
C1_Witness ==
    /\ last.op = "signup" /\ last.status = 409
    /\ \E i \in UserIds : users[i].email = last.req.email
    /\ \A i \in UserIds : users[i].username # last.req.username

\* C2: a signup with a username and email not in use succeeds, and a login with
\* its credentials right after it succeeds with a token whose subject is the id of
\* the row the signup created; a login with an unknown username or a password the
\* stored hash does not match answers 401 and issues no token.
C2_SignupThenLogin ==
    [][ /\ (last'.op = "signup" /\ last'.status # 409) =>
              LET r == LoginResponse(users', last'.req.username, last'.req.password)
                  uid == Len(users')
              IN  /\ last'.status = 200
                  /\ Len(users') = Len(users) + 1
                  /\ users'[uid].username = last'.req.username
                  /\ users'[uid].email = last'.req.email
                  /\ r.status = 200
                  /\ r.token.sub = IntId(uid)
                  /\ verify_jwt(r.token, env.JWT_SECRET_KEY) = "ok"
        /\ last'.op = "login" =>
              LET match == {i \in UserIds :
                               /\ users[i].username = last'.req.username
                               /\ check_password_hash(users[i].password,
                                                      last'.req.password)}
              IN  IF match = {}
                  THEN /\ last'.status = 401
                       /\ last'.out.access_token = NoToken
                       /\ held' = held
                  ELSE /\ last'.status = 200
                       /\ \E i \in match : last'.out.access_token.sub = IntId(i)
                       /\ verify_jwt(last'.out.access_token, env.JWT_SECRET_KEY) = "ok"
                       /\ last'.out.access_token \in held' ]_vars

\* C2 witness: the second user signed up has logged in and holds a token for id 2.
C2_Witness ==
    /\ last.op = "login" /\ last.status = 200
    /\ Len(users) = 2
    /\ last.out.access_token.sub = IntId(2)
    /\ users[2].username = last.req.username

\* C4 as stated: no two users share a username and no two share an email, an
\* absent email (NULL) counting as a value like any other.
C4_Original ==
    \A i, j \in UserIds :
        i # j => /\ users[i].username # users[j].username
                 /\ users[i].email # users[j].email

\* C4 (amended): no two users share a username, and no two share an email that is
\* present; any number of users may have no email.
C4_Unique ==
    \A i, j \in UserIds :
        i # j => /\ users[i].username # users[j].username
                 /\ (users[i].email # None => users[i].email # users[j].email)

\* C4 witness: update_profile asked for an email another user has, and the
\* commit was refused.
C4_Witness ==
    /\ last.op = "update_profile" /\ last.status = 500
    /\ last.req.email # None
    /\ \E i \in UserIds : users[i].email = last.req.email

\* what C10 says of one forgot_password step, the previous password being
\* excused from failing when strict is FALSE and it equals the generated one
ForgotPasswordStep(strict) ==
    LET email == last'.req.email
        uid == FirstByEmail(users, email)
        mail == last'.out.mail
    IN  IF uid = 0
        THEN last'.status = 404 /\ users' = users /\ mail = NoMail
        ELSE /\ Len(users') = Len(users)
             /\ \A i \in UserIds :
                   /\ i # uid => users'[i] = users[i]
                   /\ users'[i].username = users[i].username
                   /\ users'[i].email = users[i].email
                   /\ users'[i].name = users[i].name
             \* the stored hash is the hash of a generated password, sent or not
             /\ \E g \in Generated : check_password_hash(users'[uid].password, g)
             /\ mail = NoMail => last'.status = 500
             /\ mail # NoMail =>
                   /\ last'.status = 200
                   /\ mail.to = users[uid].email
                   /\ mail.password \in Generated
                   /\ LoginResponse(users', users[uid].username,
                                    mail.password).status = 200
                   /\ \A old \in AllPasswords :
                         (/\ check_password_hash(users[uid].password, old)
                          /\ (strict \/ old # mail.password))
                         => LoginResponse(users', users[uid].username,
                                          old).status = 401

ProtectedOps ==
    {"profile", "update_profile", "videos", "save", "unsave", "saved",
     "change_password"}

\* what C3 says of a protected handler run with a valid token: it reads and
\* writes the rows of the token's subject and no others
ActsOnSubject ==
    LET t == last'.req.token
        uid == t.sub[2]
        row == SavedRow(t.sub, 1)
        others == \A i \in UserIds : i # uid => users'[i] = users[i]
    IN  /\ t \in held
        /\ t.sub[1] = "int" /\ uid \in UserIds
        /\ Len(users') = Len(users) /\ others /\ videos' = videos
        /\ last'.op = "profile" =>
              /\ last'.status = 200 /\ users' = users /\ saved' = saved
              /\ last'.out = [username |-> users[uid].username,
                              name |-> users[uid].name, email |-> users[uid].email]
        /\ last'.op = "update_profile" =>
              /\ saved' = saved
              /\ last'.status = 200 =>
                    /\ users'[uid].name = last'.req.name
                    /\ users'[uid].email = last'.req.email
        /\ last'.op = "change_password" =>
              /\ saved' = saved
              /\ last'.status = 200 =>
                    check_password_hash(users'[uid].password, last'.req.newPassword)
        /\ last'.op = "videos" => users' = users /\ saved' = saved
        /\ last'.op = "save" =>
              /\ users' = users /\ CopiesIn(row, saved') = 1
              /\ \A r \in BagToSet(saved) \cup BagToSet(saved') :
                    r # row => CopiesIn(r, saved') = CopiesIn(r, saved)
        /\ last'.op = "unsave" =>
              /\ users' = users /\ CopiesIn(row, saved') = 0
              /\ \A r \in BagToSet(saved) \cup BagToSet(saved') :
                    r # row => CopiesIn(r, saved') = CopiesIn(r, saved)
        /\ last'.op = "saved" =>
              /\ users' = users /\ saved' = saved
              /\ DOMAIN last'.out =
                    {v \in 1..Len(videos) : BagIn(SavedRow(t.sub, v), saved)}

\* C3: every bearer-protected handler of the user service, given no token, a
\* tampered token or an expired one, answers 401 and changes no row; given a
\* valid token login issued it acts on the subject login put in the token.
C3_BearerTokens ==
    [][ last'.op \in ProtectedOps =>
          IF verify_jwt(last'.req.token, env.JWT_SECRET_KEY) # "ok"
          THEN /\ last'.status = 401
               /\ users' = users /\ videos' = videos /\ saved' = saved
          ELSE ActsOnSubject ]_vars

\* C5: one request at a time, a save leaves exactly one row for its (user,
\* video) pair and reports saved=true, an unsave leaves none and reports
\* saved=false, and neither changes the rows of any other pair.
C5_SaveUnsave ==
    [][ (/\ last'.op \in {"save", "unsave"}
         /\ verify_jwt(last'.req.token, env.JWT_SECRET_KEY) = "ok") =>
          LET row == SavedRow(last'.req.token.sub, last'.req.video_id)
          IN  /\ last'.status = 200
              /\ last'.op = "save" =>
                    CopiesIn(row, saved') = 1 /\ last'.out.saved = TRUE
              /\ last'.op = "unsave" =>
                    CopiesIn(row, saved') = 0 /\ last'.out.saved = FALSE
              /\ \A r \in BagToSet(saved) \cup BagToSet(saved') :
                    r # row => CopiesIn(r, saved') = CopiesIn(r, saved) ]_vars

\* C5 witness: an unsave has removed one pair's row while another pair's row
\* stays in the ledger.
C5_Witness ==
    /\ last.op = "unsave" /\ last.status = 200
    /\ ~BagIn(SavedRow(last.req.token.sub, last.req.video_id), saved)
    /\ BagCardinality(saved) >= 1

AdminOps == {"admin_users", "admin_videos", "add_video", "update_video"}

\* C6: an admin endpoint given a valid token whose subject is not "admin" answers
\* 403 with no records and changes no video row; admin_login issues a token, with
\* subject "admin", only for the configured username and password, and answers
\* 401 otherwise.
C6_AdminOnly ==
    [][ /\ (/\ last'.op \in AdminOps
            /\ verify_jwt(last'.req.token, env.ADMIN_JWT_SECRET) = "ok"
            /\ last'.req.token.sub # AdminId)
           => /\ last'.status = 403
              /\ last'.out = [error |-> "Forbidden"]
              /\ videos' = videos /\ users' = users
        /\ last'.op = "admin_login" =>
              IF /\ last'.req.username = ADMIN_USERNAME
                 /\ last'.req.password = ADMIN_PASSWORD
              THEN /\ last'.status = 200
                   /\ last'.out.token.sub = AdminId
                   /\ verify_jwt(last'.out.token, env.ADMIN_JWT_SECRET) = "ok"
              ELSE /\ last'.status = 401
                   /\ last'.out.token = NoToken
                   /\ held' = held
        /\ \A t \in held' \ held :
              t.sub = AdminId =>
                 /\ last'.op = "admin_login"
                 /\ last'.req.username = ADMIN_USERNAME
                 /\ last'.req.password = ADMIN_PASSWORD ]_vars

\* C6 witness: a user's token, valid at the admin service, was refused by
\* add_video with 403.
C6_Witness ==
    /\ last.op = "add_video" /\ last.status = 403
    /\ last.req.token.sub = IntId(1)
    /\ last.req.token \in held

AdminToken(t) == verify_jwt(t, env.ADMIN_JWT_SECRET) = "ok" /\ t.sub = AdminId

VideoFields == {"title", "category", "section"}

\* C7: update_video by an admin sets exactly the fields among title, category
\* and section that the request supplies, keeps the others, video_url and
\* thumbnail_url, and every other row; for an id of no video it answers 404 and
\* changes nothing.
C7_UpdateVideo ==
    [][ (last'.op = "update_video" /\ AdminToken(last'.req.token)) =>
          LET id == last'.req.video_id
              data == last'.req.data
          IN  IF id \notin 1..Len(videos)
              THEN last'.status = 404 /\ videos' = videos
              ELSE /\ last'.status = 200
                   /\ Len(videos') = Len(videos)
                   /\ \A i \in 1..Len(videos) : i # id => videos'[i] = videos[i]
                   /\ \A k \in VideoFields :
                         videos'[id][k] =
                            IF k \in DOMAIN data THEN data[k] ELSE videos[id][k]
                   /\ videos'[id].video_url = videos[id].video_url
                   /\ videos'[id].thumbnail_url = videos[id].thumbnail_url ]_vars

\* C7 witness: an update that supplied the title alone went through on one of
\* two videos, whose section is still the one it was created with.
C7_Witness ==
    /\ last.op = "update_video" /\ last.status = 200
    /\ DOMAIN last.req.data = {"title"}
    /\ Len(videos) = 2
    /\ videos[last.req.video_id].title = "t2"
    /\ videos[last.req.video_id].section = "s1"

\* C8: add_video by an admin, with title, category and both blobs present and
\* both uploads succeeding, commits exactly one new row with the two URLs the
\* media host returned, whose section is "Latest" when the request supplied none,
\* and the row is among those list_videos returns; with title, category or a blob
\* absent it answers 400, uploads nothing and adds no row.
C8_AddVideo ==
    [][ (last'.op = "add_video" /\ AdminToken(last'.req.token)) =>
          LET r == last'.req
              new == videos'[Len(videos')]
          IN  IF r.title = None \/ r.category = None
                 \/ r.video = None \/ r.thumbnail = None
              THEN /\ last'.status = 400
                   /\ last'.out.uploaded = 0
                   /\ videos' = videos
              ELSE last'.out.uploaded = 2 =>
                   /\ last'.status = 200
                   /\ Len(videos') = Len(videos) + 1
                   /\ \A i \in 1..Len(videos) : videos'[i] = videos[i]
                   /\ new.title = r.title /\ new.category = r.category
                   /\ new.video_url = secure_url(r.video, "watsee/videos")
                   /\ new.thumbnail_url = secure_url(r.thumbnail, "watsee/thumbnails")
                   /\ new.section = IF r.section = None THEN "Latest" ELSE r.section
                   /\ \E i \in 1..Len(videos') : videos'[i] = new ]_vars

\* C9: whatever the interleaving of save and unsave requests, the ledger holds at
\* most one row for a (user_id, video_id) pair.
C9_NoDuplicateRows == \A r \in BagToSet(saved) : CopiesIn(r, saved) <= 1
====
